---- MODULE Spec2Model ----
(***************************************************************************)
(* termshot: one Screenshotter with its PTYRunner and TerminalEmulator,    *)
(* together with the processes and the pseudo-terminal of the running      *)
(* capture session.                                                        *)
(*                                                                         *)
(* Time is counted in ticks of 0.05 s.  It advances only while the runner  *)
(* is blocked in select(); the statements between two waits take no time.  *)
(* A byte that becomes readable in the instant a wait expires stands for   *)
(* the byte that arrives just before the deadline.                         *)
(***************************************************************************)
EXTENDS Integers, Sequences, FiniteSets

\* ---------------------------------------------------------------- bounds
MaxBytes   == 2     \* bytes the processes of one session write
PtyCap     == 2     \* bytes the kernel buffers between the two ends
ReadChunk  == 1     \* os.read(master_fd, 4096), scaled
MaxTimeout == 3     \* largest timeout tried, in ticks
MaxRuns    == 2     \* calls of Screenshotter.run

\* ------------------------------------------------------ program constants
Slice     == 2      \* select(..., 0.1): the time slice of the poll loop
DrainWait == 1      \* select(..., 0.05): the final drain wait

NONE == "none"
ESC  == "ESC"
Bytes == {ESC, "a"}

MaxTime == MaxTimeout + Slice + DrainWait

Min(a, b) == IF a < b THEN a ELSE b
IsPrefix(s, t) == Len(s) <= Len(t) /\ SubSeq(t, 1, Len(s)) = s

\* ---------------------------------------------------------------- strings
\* A Python string is the sequence of its characters.
UpperCase == <<"A","B","C","D","E","F","G","H","I","J","K","L","M",
               "N","O","P","Q","R","S","T","U","V","W","X","Y","Z">>
LowerCase == <<"a","b","c","d","e","f","g","h","i","j","k","l","m",
               "n","o","p","q","r","s","t","u","v","w","x","y","z">>
HexDigits == <<"0","1","2","3","4","5","6","7","8","9",
               "a","b","c","d","e","f">>

IndexIn(seq, c) == CHOOSE i \in 1..Len(seq) : seq[i] = c
Occurs(seq, c) == \E i \in 1..Len(seq) : seq[i] = c

\* str.lower(), one character and a whole string.
LowerChar(c) == IF Occurs(UpperCase, c) THEN LowerCase[IndexIn(UpperCase, c)] ELSE c
Lower(s) == [i \in 1..Len(s) |-> LowerChar(s[i])]

\* str.replace(c, ""): the string without the character c.
RECURSIVE Without(_, _)
Without(s, c) ==
  IF s = <<>> THEN <<>>
  ELSE IF Head(s) = c THEN Without(Tail(s), c)
  ELSE <<Head(s)>> \o Without(Tail(s), c)

\* str.lstrip(c): every leading c removed.
RECURSIVE LStrip(_, _)
LStrip(s, c) == IF s # <<>> /\ Head(s) = c THEN LStrip(Tail(s), c) ELSE s

\* str.isdigit(): not empty, decimal digits only.
IsDigit(s) == s # <<>> /\ \A i \in 1..Len(s) : Occurs(SubSeq(HexDigits, 1, 10), s[i])

\* int(s) of a string of decimal digits.
RECURSIVE DecimalValue(_)
DecimalValue(s) ==
  IF s = <<>> THEN 0
  ELSE 10 * DecimalValue(SubSeq(s, 1, Len(s) - 1)) + (IndexIn(HexDigits, s[Len(s)]) - 1)

\* s[i:i+2] for the 0-based i: a slice stops at the end of the string.
Slice2(s, i) == SubSeq(s, i + 1, Min(i + 2, Len(s)))

\* int(p, 16) of a slice of at most two characters: one or two hex digits of
\* either case, or a sign or a blank next to one digit; anything else raises
\* ValueError.
IsHex(c) == Occurs(HexDigits, LowerChar(c))
HexOf(c) == IndexIn(HexDigits, LowerChar(c)) - 1
Int16Ok(p) ==
  \/ Len(p) = 1 /\ IsHex(p[1])
  \/ Len(p) = 2 /\ IsHex(p[1]) /\ IsHex(p[2])
  \/ Len(p) = 2 /\ p[1] \in {"+", "-", " "} /\ IsHex(p[2])
  \/ Len(p) = 2 /\ IsHex(p[1]) /\ p[2] = " "
Int16(p) ==
  IF Len(p) = 1 THEN HexOf(p[1])
  ELSE IF p[1] = "-" THEN 0 - HexOf(p[2])
  ELSE IF p[1] \in {"+", " "} THEN HexOf(p[2])
  ELSE IF p[2] = " " THEN HexOf(p[1])
  ELSE 16 * HexOf(p[1]) + HexOf(p[2])

\* ------------------------------------------------------ values and results
\* A Python value with its type, and the outcome of a call: a value, or an
\* exception.
StrVal(s) == [t |-> "str", v |-> s]
IntVal(n) == [t |-> "int", v |-> n]
Returned(v) == [ok |-> TRUE, val |-> v]
Raised == [ok |-> FALSE, val |-> <<"raised">>]
\* No call was made yet.
Unset == [ok |-> FALSE, val |-> <<"unset">>]
DEFAULT == <<"d","e","f","a","u","l","t">>

\* ----------------------------------------------------------------- themes
\* Theme.hex_to_rgb.
hex_to_rgb(hex_color) ==
  LET s == LStrip(hex_color, "#")
  IN IF \A i \in {0, 2, 4} : Int16Ok(Slice2(s, i))
       THEN Returned(<<Int16(Slice2(s, 0)), Int16(Slice2(s, 2)), Int16(Slice2(s, 4))>>)
       ELSE Raised

\* Variant: the first palette entry counts as missing.
get_colorFromOne(th, index) ==
  IF 0 < index /\ index < Len(th.palette) THEN th.palette[index + 1]
  ELSE th.foreground

\* Theme.get_color.
get_color(th, index) ==
  IF 0 <= index /\ index < Len(th.palette) THEN th.palette[index + 1]
  ELSE th.foreground

\* The registry's themes.
DEFAULT_THEME ==
  [name |-> "default",
   background |-> <<"#","1","e","1","e","1","e">>,
   foreground |-> <<"#","d","4","d","4","d","4">>,
   cursor |-> <<"#","f","f","f","f","f","f">>,
   palette |-> <<
     <<"#","0","0","0","0","0","0">>,
     <<"#","c","d","3","1","3","1">>,
     <<"#","0","d","b","c","7","9">>,
     <<"#","e","5","e","5","1","0">>,
     <<"#","2","4","7","2","c","8">>,
     <<"#","b","c","3","f","b","c">>,
     <<"#","1","1","a","8","c","d">>,
     <<"#","e","5","e","5","e","5">>,
     <<"#","6","6","6","6","6","6">>,
     <<"#","f","1","4","c","4","c">>,
     <<"#","2","3","d","1","8","b">>,
     <<"#","f","5","f","5","4","3">>,
     <<"#","3","b","8","e","e","a">>,
     <<"#","d","6","7","0","d","6">>,
     <<"#","2","9","b","8","d","b">>,
     <<"#","f","f","f","f","f","f">>
   >>]

DRACULA_THEME ==
  [name |-> "dracula",
   background |-> <<"#","2","8","2","a","3","6">>,
   foreground |-> <<"#","f","8","f","8","f","2">>,
   cursor |-> <<"#","f","8","f","8","f","2">>,
   palette |-> <<
     <<"#","2","1","2","2","2","c">>,
     <<"#","f","f","5","5","5","5">>,
     <<"#","5","0","f","a","7","b">>,
     <<"#","f","1","f","a","8","c">>,
     <<"#","b","d","9","3","f","9">>,
     <<"#","f","f","7","9","c","6">>,
     <<"#","8","b","e","9","f","d">>,
     <<"#","f","8","f","8","f","2">>,
     <<"#","6","2","7","2","a","4">>,
     <<"#","f","f","6","e","6","e">>,
     <<"#","6","9","f","f","9","4">>,
     <<"#","f","f","f","f","a","5">>,
     <<"#","d","6","a","c","f","f">>,
     <<"#","f","f","9","2","d","f">>,
     <<"#","a","4","f","f","f","f">>,
     <<"#","f","f","f","f","f","f">>
   >>]

MONOKAI_THEME ==
  [name |-> "monokai",
   background |-> <<"#","2","7","2","8","2","2">>,
   foreground |-> <<"#","f","8","f","8","f","2">>,
   cursor |-> <<"#","f","8","f","8","f","0">>,
   palette |-> <<
     <<"#","2","7","2","8","2","2">>,
     <<"#","f","9","2","6","7","2">>,
     <<"#","a","6","e","2","2","e">>,
     <<"#","f","4","b","f","7","5">>,
     <<"#","6","6","d","9","e","f">>,
     <<"#","a","e","8","1","f","f">>,
     <<"#","a","1","e","f","e","4">>,
     <<"#","f","8","f","8","f","2">>,
     <<"#","7","5","7","1","5","e">>,
     <<"#","f","9","2","6","7","2">>,
     <<"#","a","6","e","2","2","e">>,
     <<"#","f","4","b","f","7","5">>,
     <<"#","6","6","d","9","e","f">>,
     <<"#","a","e","8","1","f","f">>,
     <<"#","a","1","e","f","e","4">>,
     <<"#","f","9","f","8","f","5">>
   >>]

NORD_THEME ==
  [name |-> "nord",
   background |-> <<"#","2","e","3","4","4","0">>,
   foreground |-> <<"#","d","8","d","e","e","9">>,
   cursor |-> <<"#","d","8","d","e","e","9">>,
   palette |-> <<
     <<"#","3","b","4","2","5","2">>,
     <<"#","b","f","6","1","6","a">>,
     <<"#","a","3","b","e","8","c">>,
     <<"#","e","b","c","b","8","b">>,
     <<"#","8","1","a","1","c","1">>,
     <<"#","b","4","8","e","a","d">>,
     <<"#","8","8","c","0","d","0">>,
     <<"#","e","5","e","9","f","0">>,
     <<"#","4","c","5","6","6","a">>,
     <<"#","b","f","6","1","6","a">>,
     <<"#","a","3","b","e","8","c">>,
     <<"#","e","b","c","b","8","b">>,
     <<"#","8","1","a","1","c","1">>,
     <<"#","b","4","8","e","a","d">>,
     <<"#","8","f","b","c","b","b">>,
     <<"#","e","c","e","f","f","4">>
   >>]

\* THEMES, the registry.
THEMES == {DEFAULT_THEME, DRACULA_THEME, MONOKAI_THEME, NORD_THEME}

\* -------------------------------------------------------- colour values
\* color_map of _convert_color: normalised colour name, palette index.
color_map ==
  {
    <<<<"b","l","a","c","k">>, 0>>,
    <<<<"r","e","d">>, 1>>,
    <<<<"g","r","e","e","n">>, 2>>,
    <<<<"y","e","l","l","o","w">>, 3>>,
    <<<<"b","r","o","w","n">>, 3>>,
    <<<<"b","l","u","e">>, 4>>,
    <<<<"m","a","g","e","n","t","a">>, 5>>,
    <<<<"c","y","a","n">>, 6>>,
    <<<<"w","h","i","t","e">>, 7>>,
    <<<<"b","r","i","g","h","t","b","l","a","c","k">>, 8>>,
    <<<<"b","r","i","g","h","t","r","e","d">>, 9>>,
    <<<<"b","r","i","g","h","t","g","r","e","e","n">>, 10>>,
    <<<<"b","r","i","g","h","t","y","e","l","l","o","w">>, 11>>,
    <<<<"b","r","i","g","h","t","b","l","u","e">>, 12>>,
    <<<<"b","r","i","g","h","t","m","a","g","e","n","t","a">>, 13>>,
    <<<<"b","r","i","g","h","t","c","y","a","n">>, 14>>,
    <<<<"b","r","i","g","h","t","w","h","i","t","e">>, 15>>
  }

\* TerminalEmulator._convert_color(color, "default"): what get_buffer puts
\* in a cell for the colour the interpreter reports.
convert_color(color) ==
  IF color.t = "str" /\ color.v = DEFAULT THEN Returned(StrVal(DEFAULT))
  ELSE IF color.t # "str" THEN Raised   \* an int has no lower()
  ELSE LET color_lower == Without(Without(Lower(color.v), " "), "_")
       IN IF \E e \in color_map : e[1] = color_lower
            THEN Returned(IntVal((CHOOSE e \in color_map : e[1] = color_lower)[2]))
          ELSE IF IsDigit(color.v) THEN Returned(IntVal(DecimalValue(color.v)))
          ELSE Returned(color)

\* Variant: the role is ignored.
ThemeDefaultForeground(th, is_foreground) == hex_to_rgb(th.foreground)

\* The theme's colour of a role.
ThemeDefault(th, is_foreground) ==
  hex_to_rgb(IF is_foreground THEN th.foreground ELSE th.background)

\* Variant: the six levels are spread evenly over 0..255.
CubeLevelEven(n) == n * 51

\* One channel of the 6x6x6 cube.
CubeLevel(n) == IF n = 0 THEN 0 ELSE 55 + n * 40

\* TerminalRenderer._get_color_rgb.
get_color_rgb(th, color, is_foreground) ==
  IF color.t = "str" /\ color.v = DEFAULT THEN ThemeDefault(th, is_foreground)
  ELSE IF color.t = "int" THEN
    IF 0 <= color.v /\ color.v < 16 THEN hex_to_rgb(get_color(th, color.v))
    ELSE IF 16 <= color.v /\ color.v < 232 THEN
      LET c == color.v - 16
      IN Returned(<<CubeLevel((c \div 36) % 6), CubeLevel((c \div 6) % 6),
                    CubeLevel(c % 6)>>)
    ELSE IF 232 <= color.v /\ color.v < 256 THEN
      LET gray == 8 + (color.v - 232) * 10 IN Returned(<<gray, gray, gray>>)
    ELSE ThemeDefault(th, is_foreground)
  ELSE IF color.v # <<>> /\ Head(color.v) = "#" THEN hex_to_rgb(color.v)
  ELSE ThemeDefault(th, is_foreground)

\* ------------------------------------------------------------- rendering
ChromeHeight    == 36     \* chrome_height
PlaceholderSize == 100    \* Image.new("RGB", (100, 100), ...)
button_radius   == 6
button_spacing  == 20
Lightening      == 30     \* min(255, c + 30)
button_colors ==
  << <<"#","f","f","5","f","5","6">>, <<"#","f","f","b","d","2","e">>,
     <<"#","2","7","c","9","3","f">> >>

\* emulator.Cell.
Cell(char, fg, bg, bold, underline, strikethrough, reverse) ==
  [char |-> char, fg |-> fg, bg |-> bg, bold |-> bold, italic |-> FALSE,
   underline |-> underline, strikethrough |-> strikethrough,
   reverse |-> reverse]
\* The cell get_buffer makes of a position nothing was drawn on.
BlankCell == Cell(" ", StrVal(DEFAULT), StrVal(DEFAULT), FALSE, FALSE, FALSE, FALSE)

RECURSIVE Concat(_)
Concat(seqs) == IF seqs = <<>> THEN <<>> ELSE Head(seqs) \o Concat(Tail(seqs))

\* An image: its size, the colour Image.new filled it with, and the
\* ImageDraw calls made on it since, in order.
Picture(width, height, fill, paints) ==
  [width |-> width, height |-> height, fill |-> fill, paints |-> paints]
Paint(shape, box, fill) == [shape |-> shape, box |-> box, fill |-> fill]

\* TerminalRenderer._draw_window_chrome: the title bar and three buttons.
draw_window_chrome(th, cf, width) ==
  LET bg_rgb == hex_to_rgb(th.background).val
      title_bar_color == [k \in 1..3 |-> Min(255, bg_rgb[k] + Lightening)]
      button_y == ChromeHeight \div 2
      x(i) == cf.padding + (i - 1) * button_spacing
  IN <<Paint("rectangle", <<0, 0, width, ChromeHeight>>, title_bar_color)>>
     \o [i \in 1..3 |->
           Paint("ellipse",
                 <<x(i) - button_radius, button_y - button_radius,
                   x(i) + button_radius, button_y + button_radius>>,
                 hex_to_rgb(button_colors[i]).val)]

\* What render draws for one cell whose corner is (x, y).
CellPaints(th, cf, cell, x, y) ==
  LET fg_rgb == get_color_rgb(th, cell.fg, TRUE).val
      bg_rgb == get_color_rgb(th, cell.bg, FALSE).val
      fg_color == IF cell.reverse THEN bg_rgb ELSE fg_rgb
      bg_color == IF cell.reverse THEN fg_rgb ELSE bg_rgb
      isDefaultBg == cell.bg.t = "str" /\ cell.bg.v = DEFAULT
  IN (IF ~isDefaultBg \/ cell.reverse
        THEN <<Paint("rectangle",
                     <<x, y, x + cf.char_width, y + cf.char_height>>, bg_color)>>
        ELSE <<>>)
     \o (IF cell.char # "" /\ cell.char # " "
           THEN <<[shape |-> "text", box |-> <<x, y>>, fill |-> fg_color,
                   text |-> cell.char, bold |-> cell.bold]>>
           ELSE <<>>)
     \o (IF cell.underline
           THEN <<Paint("line", <<x, y + cf.char_height - 2,
                                  x + cf.char_width, y + cf.char_height - 2>>,
                        fg_color)>>
           ELSE <<>>)
     \o (IF cell.strikethrough
           THEN <<Paint("line", <<x, y + cf.char_height \div 2,
                                  x + cf.char_width, y + cf.char_height \div 2>>,
                        fg_color)>>
           ELSE <<>>)

\* Variant: the padding is added once to the height.
CanvasHeightOnePadding(cf, rows) ==
  rows * cf.char_height + cf.padding + (IF cf.chrome THEN ChromeHeight ELSE 0)

\* img_width and img_height of render.
CanvasWidth(cf, cols) == cols * cf.char_width + 2 * cf.padding
CanvasHeight(cf, rows) ==
  rows * cf.char_height + 2 * cf.padding + (IF cf.chrome THEN ChromeHeight ELSE 0)

\* TerminalRenderer.render.  Resolving a cell colour may raise.
render(th, cf, buffer) ==
  IF ~hex_to_rgb(th.background).ok THEN Raised
  ELSE IF buffer = <<>> \/ buffer[1] = <<>>
    THEN Returned(Picture(PlaceholderSize, PlaceholderSize,
                          hex_to_rgb(th.background).val, <<>>))
  ELSE IF \E r \in 1..Len(buffer) : \E c \in 1..Len(buffer[r]) :
            \/ ~get_color_rgb(th, buffer[r][c].fg, TRUE).ok
            \/ ~get_color_rgb(th, buffer[r][c].bg, FALSE).ok
    THEN Raised
  ELSE
    LET rows == Len(buffer)
        cols == Len(buffer[1])
        img_width == CanvasWidth(cf, cols)
        y_offset == cf.padding + (IF cf.chrome THEN ChromeHeight ELSE 0)
        RowPaints(r) ==
          Concat([c \in 1..Len(buffer[r]) |->
                    CellPaints(th, cf, buffer[r][c],
                               cf.padding + (c - 1) * cf.char_width,
                               y_offset + (r - 1) * cf.char_height)])
    IN Returned(Picture(img_width, CanvasHeight(cf, rows),
                        hex_to_rgb(th.background).val,
                        (IF cf.chrome THEN draw_window_chrome(th, cf, img_width)
                                      ELSE <<>>)
                          \o Concat([r \in 1..rows |-> RowPaints(r)])))

VARIABLES
  \* Screenshotter
  pc,          \* where the one thread of control is
  runsLeft,
  hasRun,      \* Screenshotter._has_run
  sOutput,     \* Screenshotter._output
  screen,      \* pyte.Screen: what has been drawn since the last reset
  parser,      \* pyte.Stream: "ground", or "esc" in the middle of a sequence
  calls,       \* what the emulator was asked to do during the current run
  banner,      \* the last run's banner inputs: [show, title]
  \* PTYRunner.run
  masterOpen, slaveOpen,   \* the parent's two descriptors
  output,      \* PTYRunner.output
  timed,       \* a timeout was given (timeout is not None)
  timeout,     \* the timeout in ticks, 0 without one
  now,         \* time.time() - start_time
  pollResult,  \* TRUE: process.poll() returned an exit status
  waitLeft,    \* what is left of the running select()
  exc,         \* an exception is propagating
  reason,      \* how the loop was left
  \* the session's processes and terminal
  cmd,         \* "ok", or "missing": no such executable
  child,       \* "none", "running", "zombie", "reaped"
  childTty,    \* the child still has the terminal open
  desc,        \* a process forked by the child: "none", "running", "dead"
  termed,      \* processes SIGTERM was delivered to
  ptybuf,      \* bytes readable on the controlling end
  written,     \* every byte written to the terminal, in order
  writtenAtExit,  \* Len(written) when the child exited, 0 before
  \* history
  readLog,     \* every byte os.read returned, in order
  timedOut,    \* the timeout branch of the loop ran
  deadline,    \* the processes alive when it ran
  drained,     \* a read of the controlling end was attempted after the signal
  wait,        \* the last wait started: [kind, at, len]
  before,      \* hasRun, sOutput and screen as the running run found them
  \* TerminalRenderer and the accessors of Screenshotter
  cfg,         \* the renderer: [chrome, padding, char_width, char_height]
  theme,       \* the renderer's theme
  result,      \* the last accessor call since the last run: [op, err, out]
  grid,        \* the buffer the last render was given
  image,       \* what the last render returned
  saved,       \* what the last save wrote to its path
  \* one cell colour on its way from the interpreter to the image
  reported,    \* the colour the interpreter reports
  color,       \* the colour get_buffer puts in the cell
  role,        \* TRUE: it is resolved as a foreground
  rgb          \* what _get_color_rgb returned

vars == <<pc, runsLeft, hasRun, sOutput, screen, parser, calls, banner,
          masterOpen, slaveOpen, output, timed, timeout, now, pollResult,
          waitLeft, exc, reason, cmd, child, childTty, desc, termed, ptybuf,
          written, writtenAtExit, readLog, timedOut, deadline, drained, wait,
          before, cfg, theme, result, grid, image, saved, reported, color,
          role, rgb>>

shotVars == <<hasRun, sOutput, screen, parser, calls, banner>>
envVars  == <<cmd, child, childTty, desc, termed, ptybuf, written, writtenAtExit>>
histVars == <<readLog, timedOut, deadline, drained, wait>>
viewVars == <<result, grid, image, saved>>
colorVars == <<reported, color, role, rgb>>
\* What no step of PTYRunner.run and no process touches.
sideVars == <<before, cfg, theme, viewVars, colorVars>>

NoWait == [kind |-> NONE, at |-> 0, len |-> 0]
NoBanner == [show |-> FALSE, title |-> "None"]
NoCall == [op |-> NONE, err |-> FALSE, out |-> <<>>]
NoSnapshot == [hasRun |-> FALSE, sOutput |-> <<>>, screen |-> <<>>]

\* TerminalRenderer.__init__ with the defaults of Screenshotter.__init__, and
\* the least cell size _calculate_char_size returns.
DefaultConfig ==
  [chrome |-> TRUE, padding |-> 20, char_width |-> 8, char_height |-> 16]

\* Screenshotter.__init__ and PTYRunner.__init__, with n runs to come.
InitWith(n) ==
  /\ pc = "idle" /\ runsLeft = n
  /\ hasRun = FALSE /\ sOutput = <<>>
  /\ screen = <<>> /\ parser = "ground" /\ calls = <<>> /\ banner = NoBanner
  /\ masterOpen = FALSE /\ slaveOpen = FALSE
  /\ output = <<>> /\ timed = FALSE /\ timeout = 0 /\ now = 0
  /\ pollResult = FALSE /\ waitLeft = 0 /\ exc = FALSE /\ reason = NONE
  /\ cmd = "ok" /\ child = "none" /\ childTty = FALSE /\ desc = "none"
  /\ termed = {} /\ ptybuf = <<>> /\ written = <<>> /\ writtenAtExit = 0
  /\ readLog = <<>> /\ timedOut = FALSE /\ deadline = {} /\ drained = FALSE
  /\ wait = NoWait /\ before = NoSnapshot
  /\ theme = DEFAULT_THEME
  /\ result = NoCall /\ grid = <<>> /\ image = Unset /\ saved = Unset
  /\ reported = DEFAULT /\ color = Unset /\ role = TRUE /\ rgb = Unset

\* Screenshotter() with the defaults.
Init == InitWith(MaxRuns) /\ cfg = DefaultConfig

\* ------------------------------------------------------------ the terminal
\* No process has the terminal-facing end open any more.
Hangup == ~slaveOpen /\ ~childTty /\ desc # "running"
\* select() reports the controlling end readable: data, or a hangup.
Readable == ptybuf # <<>> \/ Hangup
Alive == (IF child = "running" THEN {"child"} ELSE {})
           \cup (IF desc = "running" THEN {"desc"} ELSE {})

\* ------------------------------------------------------- PTYRunner.run
\* Screenshotter.run calls PTYRunner.run, which opens the pseudo-terminal.
RunOpenPty ==
  /\ pc = "idle" /\ runsLeft > 0
  /\ runsLeft' = runsLeft - 1
  /\ calls' = <<>>
  /\ cmd' = "ok" /\ child' = "none" /\ childTty' = FALSE /\ desc' = "none"
  /\ termed' = {} /\ ptybuf' = <<>> /\ written' = <<>> /\ writtenAtExit' = 0
  /\ readLog' = <<>> /\ timedOut' = FALSE /\ deadline' = {} /\ drained' = FALSE
  /\ wait' = NoWait
  /\ now' = 0 /\ pollResult' = FALSE /\ waitLeft' = 0 /\ reason' = NONE
  /\ timed' = FALSE /\ timeout' = 0
  /\ \/ /\ masterOpen' = TRUE /\ slaveOpen' = TRUE
        /\ exc' = FALSE /\ pc' = "config"
     \/ \* pty.openpty() raises: no descriptor was made
        /\ masterOpen' = FALSE /\ slaveOpen' = FALSE
        /\ exc' = TRUE /\ pc' = "raised"
  /\ before' = [hasRun |-> hasRun, sOutput |-> sOutput, screen |-> screen]
  /\ result' = NoCall /\ grid' = <<>> /\ image' = Unset /\ saved' = Unset
  /\ UNCHANGED <<hasRun, sOutput, screen, parser, banner, output, cfg, theme,
                 colorVars>>

\* The window size and the echo flag are set, outside the try block.
RunConfigure ==
  /\ UNCHANGED sideVars
  /\ pc = "config"
  /\ \/ /\ output' = <<>> /\ pc' = "spawn" /\ UNCHANGED exc
     \/ \* struct.pack, ioctl or tcsetattr raises: nothing closes the pair
        /\ exc' = TRUE /\ pc' = "raised" /\ UNCHANGED output
  /\ UNCHANGED <<runsLeft, shotVars, masterOpen, slaveOpen, timed, timeout, now,
                 pollResult, waitLeft, reason, envVars, histVars>>

\* subprocess.Popen(shell=True, preexec_fn=os.setsid), os.close(slave_fd),
\* start_time.  The shell starts whether or not the executable exists.
RunSpawn ==
  /\ UNCHANGED sideVars
  /\ pc = "spawn"
  /\ \/ \E c \in {"ok", "missing"}, g \in BOOLEAN, t \in 0..MaxTimeout :
          /\ (~g => t = 0)
          /\ cmd' = c /\ timed' = g /\ timeout' = t
          /\ child' = "running" /\ childTty' = TRUE
          /\ slaveOpen' = FALSE
          /\ now' = 0 /\ pc' = "check" /\ UNCHANGED exc
     \/ \* Popen raises: os.close(slave_fd) is skipped
        /\ exc' = TRUE /\ pc' = "finally"
        /\ UNCHANGED <<cmd, timed, timeout, child, childTty, slaveOpen, now>>
  /\ UNCHANGED <<runsLeft, shotVars, masterOpen, output, pollResult, waitLeft,
                 reason, desc, termed, ptybuf, written, writtenAtExit, histVars>>

\* os.killpg(os.getpgid(process.pid), SIGTERM): the processes it reaches.
\* getpgid of a reaped child raises ProcessLookupError, which is swallowed.
KillTargets == IF child = "reaped" THEN {} ELSE Alive

\* Variant: the timeout branch raises instead of breaking out of the loop.
RunCheckTimeoutRaises ==
  /\ UNCHANGED sideVars
  /\ pc = "check"
  /\ IF timed /\ now >= timeout
       THEN /\ termed' = termed \cup KillTargets
            /\ timedOut' = TRUE /\ deadline' = Alive
            /\ reason' = "timeout" /\ pc' = "finally" /\ exc' = TRUE
       ELSE /\ pc' = "poll" /\ UNCHANGED <<termed, timedOut, deadline, reason, exc>>
  /\ UNCHANGED <<runsLeft, shotVars, masterOpen, slaveOpen, output, timed, timeout, now,
                 pollResult, waitLeft, cmd, child, childTty, desc, ptybuf,
                 written, writtenAtExit, readLog, drained, wait>>

\* Top of the loop: the timeout check.
RunCheckTimeout ==
  /\ UNCHANGED sideVars
  /\ pc = "check"
  /\ IF timed /\ now >= timeout
       THEN /\ termed' = termed \cup KillTargets
            /\ timedOut' = TRUE /\ deadline' = Alive
            /\ reason' = "timeout" /\ pc' = "finally"
       ELSE /\ pc' = "poll" /\ UNCHANGED <<termed, timedOut, deadline, reason>>
  /\ UNCHANGED <<runsLeft, shotVars, masterOpen, slaveOpen, output, timed, timeout, now,
                 pollResult, waitLeft, exc, cmd, child, childTty, desc, ptybuf,
                 written, writtenAtExit, readLog, drained, wait>>

\* Variant: the wait ignores the time remaining to the deadline.
SelectWaitWholeSlice == Slice

\* The length of the loop's select() wait.
SelectWait == IF ~timed THEN Slice
              ELSE Min(Slice, IF timeout > now THEN timeout - now ELSE 0)

\* Variant: the loop is left as soon as poll() reports the exit, unread
\* bytes or not.
RunPollBreakWhenExited ==
  /\ UNCHANGED sideVars
  /\ pc = "poll"
  /\ pollResult' = (child \in {"zombie", "reaped"})
  /\ child' = IF child = "zombie" THEN "reaped" ELSE child
  /\ IF child \in {"zombie", "reaped"}
       THEN /\ pc' = "finally" /\ reason' = "drained"
            /\ UNCHANGED <<waitLeft, wait>>
       ELSE /\ waitLeft' = SelectWait
            /\ wait' = [kind |-> "select", at |-> now, len |-> SelectWait]
            /\ pc' = "select" /\ UNCHANGED reason
  /\ UNCHANGED <<runsLeft, shotVars, masterOpen, slaveOpen, output, timed, timeout, now,
                 exc, cmd, childTty, desc, termed, ptybuf, written,
                 writtenAtExit, readLog, timedOut, deadline, drained>>

\* process.poll() (which reaps an exited child), then select() starts.
RunPoll ==
  /\ UNCHANGED sideVars
  /\ pc = "poll"
  /\ pollResult' = (child \in {"zombie", "reaped"})
  /\ child' = IF child = "zombie" THEN "reaped" ELSE child
  /\ waitLeft' = SelectWait
  /\ wait' = [kind |-> "select", at |-> now, len |-> SelectWait]
  /\ pc' = "select"
  /\ UNCHANGED <<runsLeft, shotVars, masterOpen, slaveOpen, output, timed, timeout, now,
                 exc, reason, cmd, childTty, desc, termed, ptybuf, written,
                 writtenAtExit, readLog, timedOut, deadline, drained>>

\* Time passes while select() (the loop's or the drain's) finds nothing.
Tick ==
  /\ UNCHANGED sideVars
  /\ pc \in {"select", "drain"} /\ waitLeft > 0 /\ ~Readable
  /\ waitLeft' = waitLeft - 1
  /\ now' = Min(now + 1, MaxTime)
  /\ UNCHANGED <<pc, runsLeft, shotVars, masterOpen, slaveOpen, output, timed, timeout,
                 pollResult, exc, reason, envVars, histVars>>

\* select() returns: ready, or timed out with the sampled poll result deciding.
RunSelect ==
  /\ UNCHANGED sideVars
  /\ pc = "select"
  /\ \/ /\ Readable
        /\ pc' = "read" /\ waitLeft' = 0 /\ UNCHANGED wait
     \/ /\ ~Readable /\ waitLeft = 0
        /\ IF pollResult
             THEN /\ pc' = "drain" /\ waitLeft' = DrainWait
                  /\ wait' = [kind |-> "drain", at |-> now, len |-> DrainWait]
             ELSE /\ pc' = "check" /\ waitLeft' = 0 /\ UNCHANGED wait
  /\ UNCHANGED <<runsLeft, shotVars, masterOpen, slaveOpen, output, timed, timeout, now,
                 pollResult, exc, reason, envVars, readLog, timedOut, deadline, drained>>

\* os.read(master_fd, 4096) in the loop.
RunRead ==
  /\ UNCHANGED sideVars
  /\ pc = "read"
  /\ \/ \E k \in 1..Min(Len(ptybuf), ReadChunk) :
          /\ output' = output \o SubSeq(ptybuf, 1, k)
          /\ readLog' = readLog \o SubSeq(ptybuf, 1, k)
          /\ ptybuf' = SubSeq(ptybuf, k + 1, Len(ptybuf))
          /\ pc' = "check" /\ UNCHANGED reason
     \/ \* end of file
        /\ ptybuf = <<>> /\ Hangup
        /\ IF pollResult THEN pc' = "finally" /\ reason' = "eof"
                         ELSE pc' = "check" /\ UNCHANGED reason
        /\ UNCHANGED <<output, readLog, ptybuf>>
     \/ \* OSError (EIO after the hangup)
        /\ ptybuf = <<>> /\ Hangup
        /\ pc' = "finally" /\ reason' = "readerr"
        /\ UNCHANGED <<output, readLog, ptybuf>>
  /\ drained' = (drained \/ timedOut)
  /\ UNCHANGED <<runsLeft, shotVars, masterOpen, slaveOpen, timed, timeout, now,
                 pollResult, waitLeft, exc, cmd, child, childTty, desc, termed,
                 written, writtenAtExit, timedOut, deadline, wait>>

\* The final read attempt after the child was seen to have exited.
RunDrain ==
  /\ UNCHANGED sideVars
  /\ pc = "drain"
  /\ \/ \E k \in 1..Min(Len(ptybuf), ReadChunk) :
          /\ output' = output \o SubSeq(ptybuf, 1, k)
          /\ readLog' = readLog \o SubSeq(ptybuf, 1, k)
          /\ ptybuf' = SubSeq(ptybuf, k + 1, Len(ptybuf))
     \/ \* ready by hangup: the read returns nothing or raises, both pass
        /\ ptybuf = <<>> /\ Hangup
        /\ UNCHANGED <<output, readLog, ptybuf>>
     \/ \* not ready within the drain wait
        /\ ~Readable /\ waitLeft = 0
        /\ UNCHANGED <<output, readLog, ptybuf>>
  /\ pc' = "finally" /\ reason' = "drained" /\ waitLeft' = 0
  /\ drained' = (drained \/ timedOut)
  /\ UNCHANGED <<runsLeft, shotVars, masterOpen, slaveOpen, timed, timeout, now,
                 pollResult, exc, cmd, child, childTty, desc, termed,
                 written, writtenAtExit, timedOut, deadline, wait>>

\* finally: os.close(master_fd); then return self.output or re-raise.
RunFinally ==
  /\ UNCHANGED sideVars
  /\ pc = "finally"
  /\ masterOpen' = FALSE
  /\ pc' = IF exc THEN "raised" ELSE "ret"
  /\ UNCHANGED <<runsLeft, shotVars, slaveOpen, output, timed, timeout, now, pollResult,
                 waitLeft, exc, reason, envVars, histVars>>

\* ---------------------------------------------------- the interpreter
\* TerminalEmulator.feed: one character through the pyte stream.  The stream
\* keeps its place inside a control sequence from one feed call to the next;
\* ESC opens a sequence and the character after it completes it, drawing
\* nothing.  Every other character is drawn.
FeedOne(st, tok) ==
  IF st.parser = "esc" THEN [st EXCEPT !.parser = "ground"]
  ELSE IF tok = ESC THEN [st EXCEPT !.parser = "esc"]
  ELSE [st EXCEPT !.screen = Append(@, tok)]

RECURSIVE Feed(_, _)
Feed(st, data) ==
  IF data = <<>> THEN st ELSE Feed(FeedOne(st, Head(data)), Tail(data))

\* TerminalEmulator.reset: self.screen.reset(), which leaves self.stream alone.
Reset(st) == [st EXCEPT !.screen = <<>>]

\* The calls Screenshotter.run makes on the emulator, as they are logged.
Call(op, data) == [op |-> op, data |-> data]

\* Variant: the title is used whenever one was passed, empty or not.
PromptLineWhenGiven(title) ==
  <<"P", IF title # "None" THEN title ELSE "C", "NL">>

\* The banner line: prompt, then the title if it is truthy, else the command.
PromptLine(title) ==
  <<"P", IF title \notin {"None", ""} THEN title ELSE "C", "NL">>

\* Screenshotter.run after PTYRunner.run returned: store the output, reset
\* the emulator, feed banner, carriage return and output, set the flag.
ShotPipeline ==
  /\ pc = "ret"
  /\ \E show \in BOOLEAN, title \in {"None", "", "T"} :
       LET st1 == Reset([screen |-> screen, parser |-> parser])
           st2 == IF show THEN Feed(st1, PromptLine(title)) ELSE st1
           st3 == Feed(st2, <<"CR">>)
           st4 == Feed(st3, output)
       IN /\ sOutput' = output
          /\ screen' = st4.screen /\ parser' = st4.parser
          /\ calls' = <<Call("reset", <<>>)>>
                      \o (IF show THEN <<Call("feed", PromptLine(title))>> ELSE <<>>)
                      \o <<Call("feed", <<"CR">>), Call("feed", output)>>
          /\ banner' = [show |-> show, title |-> title]
  /\ hasRun' = TRUE
  /\ pc' = "idle"
  /\ before' = NoSnapshot
  /\ UNCHANGED <<runsLeft, masterOpen, slaveOpen, output, timed, timeout, now,
                 pollResult, waitLeft, exc, reason, envVars, histVars, cfg,
                 theme, viewVars, colorVars>>

\* Variant: the emulator is reset before the capture is made.
ShotRaisedAfterReset ==
  /\ UNCHANGED sideVars
  /\ pc = "raised"
  /\ pc' = "idle"
  /\ screen' = <<>>
  /\ UNCHANGED <<runsLeft, hasRun, sOutput, parser, calls, banner, masterOpen,
                 slaveOpen, output, timed, timeout, now, pollResult, waitLeft,
                 exc, reason, envVars, histVars>>

\* PTYRunner.run raised: the exception leaves Screenshotter.run at its first
\* statement.
ShotRaised ==
  /\ UNCHANGED sideVars
  /\ pc = "raised"
  /\ pc' = "idle"
  /\ UNCHANGED <<runsLeft, shotVars, masterOpen, slaveOpen, output, timed,
                 timeout, now, pollResult, waitLeft, exc, reason, envVars,
                 histVars>>

\* ------------------------------------------------------ the screen's grid
ScreenRows == 2    \* Screenshotter(rows=...)
ScreenCols == 3    \* Screenshotter(cols=...)

\* pyte.Screen(cols, rows) after reset: blank lines, the cursor at the
\* top left.
NewScreen ==
  [lines |-> [r \in 1..ScreenRows |-> [c \in 1..ScreenCols |-> " "]],
   x |-> 0, y |-> 0]

\* A line feed: the cursor goes down, the lines scroll up at the bottom.
LineFeed(s) ==
  IF s.y = ScreenRows - 1
    THEN [s EXCEPT !.lines = Tail(@) \o <<[c \in 1..ScreenCols |-> " "]>>]
    ELSE [s EXCEPT !.y = @ + 1]

\* Variant: a carriage return is drawn like a glyph.
DrawOneControlsShown(s, tok) ==
  IF tok = "NL" THEN LineFeed(s)
  ELSE LET w == IF s.x = ScreenCols THEN LineFeed([s EXCEPT !.x = 0]) ELSE s
       IN [w EXCEPT !.lines[w.y + 1][w.x + 1] = tok, !.x = w.x + 1]

\* The screen takes one character: a carriage return, a line feed (which
\* leaves the column alone), or a glyph, which wraps at the right margin.
DrawOne(s, tok) ==
  IF tok = "CR" THEN [s EXCEPT !.x = 0]
  ELSE IF tok = "NL" THEN LineFeed(s)
  ELSE LET w == IF s.x = ScreenCols THEN LineFeed([s EXCEPT !.x = 0]) ELSE s
       IN [w EXCEPT !.lines[w.y + 1][w.x + 1] = tok, !.x = w.x + 1]

RECURSIVE DrawAll(_, _)
DrawAll(s, toks) ==
  IF toks = <<>> THEN s ELSE DrawAll(DrawOne(s, Head(toks)), Tail(toks))

\* TerminalEmulator.get_display_lines.
get_display_lines(drawn) == DrawAll(NewScreen, drawn).lines

\* TerminalEmulator.get_buffer: a new Cell for every position.
get_buffer(drawn) ==
  LET lines == DrawAll(NewScreen, drawn).lines
  IN [r \in 1..ScreenRows |->
       [c \in 1..ScreenCols |->
          Cell(lines[r][c], convert_color(StrVal(DEFAULT)).val,
               convert_color(StrVal(DEFAULT)).val, FALSE, FALSE, FALSE, FALSE)]]

\* ------------------------------------------- the accessors of Screenshotter
Answer(op, err, out) == [op |-> op, err |-> err, out |-> out]

\* What no accessor assigns.
AccessorFrame ==
  UNCHANGED <<pc, runsLeft, shotVars, masterOpen, slaveOpen, output, timed,
              timeout, now, pollResult, waitLeft, exc, reason, envVars,
              histVars, before, cfg, theme, colorVars>>

\* Variant: taking the image clears the emulator's screen.
ToImageClearing ==
  /\ pc = "idle"
  /\ IF ~hasRun
       THEN /\ result' = Answer("to_image", "RuntimeError", <<>>)
            /\ UNCHANGED <<grid, image, screen>>
       ELSE /\ grid' = get_buffer(screen)
            /\ image' = render(theme, cfg, grid')
            /\ result' = Answer("to_image", IF image'.ok THEN NONE ELSE "ValueError", <<>>)
            /\ screen' = <<>>
  /\ UNCHANGED <<saved, runsLeft, hasRun, sOutput, parser, calls, banner,
                 masterOpen, slaveOpen, output, timed, timeout, now, pollResult,
                 waitLeft, exc, reason, envVars, histVars, before, cfg, theme,
                 colorVars>>
  /\ UNCHANGED pc

\* Variant: save renders whether or not a run has completed.
SaveUnguarded ==
  /\ pc = "idle"
  /\ grid' = get_buffer(screen)
  /\ image' = render(theme, cfg, grid')
  /\ result' = Answer("save", IF image'.ok THEN NONE ELSE "ValueError", <<>>)
  /\ saved' = IF image'.ok THEN image' ELSE saved
  /\ AccessorFrame

\* Screenshotter.to_image.
ToImage ==
  /\ pc = "idle"
  /\ IF ~hasRun
       THEN /\ result' = Answer("to_image", "RuntimeError", <<>>)
            /\ UNCHANGED <<grid, image>>
       ELSE /\ grid' = get_buffer(screen)
            /\ image' = render(theme, cfg, grid')
            /\ result' = Answer("to_image", IF image'.ok THEN NONE ELSE "ValueError", <<>>)
  /\ UNCHANGED saved
  /\ AccessorFrame

\* Screenshotter.save.
Save ==
  /\ pc = "idle"
  /\ IF ~hasRun
       THEN /\ result' = Answer("save", "RuntimeError", <<>>)
            /\ UNCHANGED <<grid, image, saved>>
       ELSE /\ grid' = get_buffer(screen)
            /\ image' = render(theme, cfg, grid')
            /\ result' = Answer("save", IF image'.ok THEN NONE ELSE "ValueError", <<>>)
            /\ saved' = IF image'.ok THEN image' ELSE saved
  /\ AccessorFrame

\* Screenshotter.get_raw_output.
GetRawOutput ==
  /\ pc = "idle"
  /\ result' = Answer("get_raw_output", NONE, sOutput)
  /\ UNCHANGED <<grid, image, saved>>
  /\ AccessorFrame

\* Screenshotter.get_text_output.
GetTextOutput ==
  /\ pc = "idle"
  /\ result' = Answer("get_text_output", NONE,
                      IF ~hasRun THEN <<>> ELSE get_display_lines(screen))
  /\ UNCHANGED <<grid, image, saved>>
  /\ AccessorFrame

\* ------------------------------------------- the processes of the session
\* The processes run while the controlling end is open.
EnvActive == masterOpen /\ child # "none"

\* The rest of the state, which no process step touches.
EnvFrame == UNCHANGED <<pc, runsLeft, shotVars, masterOpen, slaveOpen, output,
                        timed, timeout, now, pollResult, waitLeft, exc, reason,
                        cmd, termed, histVars, sideVars>>

\* A process writes one byte to the terminal.  The terminal hands the bytes
\* over as written and in order; a full buffer blocks the writer.
Write(b) ==
  /\ Len(ptybuf) < PtyCap /\ Len(written) < MaxBytes
  /\ ptybuf' = Append(ptybuf, b)
  /\ written' = Append(written, b)

ChildWrite ==
  /\ EnvActive /\ child = "running" /\ childTty
  /\ \E b \in Bytes : Write(b)
  /\ UNCHANGED <<child, childTty, desc, writtenAtExit>>
  /\ EnvFrame

DescWrite ==
  /\ EnvActive /\ desc = "running"
  /\ \E b \in Bytes : Write(b)
  /\ UNCHANGED <<child, childTty, desc, writtenAtExit>>
  /\ EnvFrame

\* The child forks a process that stays in its group and on its terminal.
ChildFork ==
  /\ EnvActive /\ child = "running" /\ childTty /\ desc = "none"
  /\ cmd = "ok"
  /\ desc' = "running"
  /\ UNCHANGED <<child, childTty, ptybuf, written, writtenAtExit>>
  /\ EnvFrame

\* The child closes its standard streams and keeps running.
ChildCloseTty ==
  /\ EnvActive /\ child = "running" /\ childTty
  /\ cmd = "ok"
  /\ childTty' = FALSE
  /\ UNCHANGED <<child, desc, ptybuf, written, writtenAtExit>>
  /\ EnvFrame

\* The child exits (the shell of a missing executable after its message).
ChildExit ==
  /\ EnvActive /\ child = "running"
  /\ cmd = "missing" => written # <<>>
  /\ child' = "zombie" /\ childTty' = FALSE
  /\ writtenAtExit' = Len(written)
  /\ UNCHANGED <<desc, ptybuf, written>>
  /\ EnvFrame

DescExit ==
  /\ EnvActive /\ desc = "running"
  /\ desc' = "dead"
  /\ UNCHANGED <<child, childTty, ptybuf, written, writtenAtExit>>
  /\ EnvFrame

\* --------------------------------------------------------- specification
Next ==
  \/ RunOpenPty \/ RunConfigure \/ RunSpawn \/ RunCheckTimeout \/ RunPoll
  \/ Tick \/ RunSelect \/ RunRead \/ RunDrain \/ RunFinally
  \/ ShotPipeline \/ ShotRaised
  \/ ChildWrite \/ DescWrite \/ ChildFork \/ ChildCloseTty \/ ChildExit
  \/ DescExit

Spec == Init /\ [][Next]_vars

\* One capture session: a Screenshotter on which run is called once.
InitSession == InitWith(1) /\ cfg = DefaultConfig
SpecSession == InitSession /\ [][Next]_vars

\* ===================================== the Screenshotter and its accessors
\* Every sequence of at most n bytes.
BytesUpTo(n) == UNION {[1..k -> Bytes] : k \in 0..n}

\* PTYRunner.run as Screenshotter.run sees it: it returns the bytes it has
\* read, or it raises, before or after it has emptied its own buffer.
Capture ==
  /\ pc = "idle" /\ runsLeft > 0
  /\ runsLeft' = runsLeft - 1
  /\ calls' = <<>>
  /\ before' = [hasRun |-> hasRun, sOutput |-> sOutput, screen |-> screen]
  /\ result' = NoCall /\ grid' = <<>> /\ image' = Unset /\ saved' = Unset
  /\ \/ \E out \in BytesUpTo(MaxBytes) :
          output' = out /\ exc' = FALSE /\ pc' = "ret"
     \/ \E out \in {output, <<>>} :
          output' = out /\ exc' = TRUE /\ pc' = "raised"
  /\ UNCHANGED <<hasRun, sOutput, screen, parser, banner, masterOpen, slaveOpen,
                 timed, timeout, now, pollResult, waitLeft, reason, envVars,
                 histVars, cfg, theme, colorVars>>

\* Screenshotter(show_window_chrome=...), the rest by default.
InitShot ==
  /\ InitWith(MaxRuns)
  /\ cfg \in {DefaultConfig, [DefaultConfig EXCEPT !.chrome = FALSE]}

NextShot ==
  \/ Capture \/ ShotPipeline \/ ShotRaised
  \/ ToImage \/ Save \/ GetRawOutput \/ GetTextOutput
SpecShot == InitShot /\ [][NextShot]_vars

\* ============================================= one colour, end to end
\* The way of one cell colour: the interpreter reports it, get_buffer
\* converts it, render resolves it; or a caller of render made the cell.
MaxIndex == 260    \* largest decimal string and integer tried

\* Pairs of hex digits the six-digit colours tried are made of.
PairsTried == {<<"0","0">>, <<"1","2">>, <<"9","9">>, <<"a","b">>, <<"F","f">>}
SixHex == {a \o b \o c : a \in PairsTried, b \in PairsTried, c \in PairsTried}

\* str(n): the decimal digits of n >= 0.
RECURSIVE DecimalString(_)
DecimalString(n) ==
  IF n < 10 THEN <<HexDigits[n + 1]>>
  ELSE DecimalString(n \div 10) \o <<HexDigits[(n % 10) + 1]>>

\* Strings that are no colour name, no number and no six-digit colour.
OtherStrings ==
  { <<>>, <<"#">>, <<"#","1","2">>, <<"#","1","2","3","4","5">>,
    <<"#","z","z","z","z","z","z">>, <<"#","-","1","-","1","-","1">>,
    <<"#","#","f","f","0","0","0","0">>, <<"#","1","2","3","4","5","6","7">>,
    <<"p","u","r","p","l","e">>, <<"b","r","i","g","h","t","b","r","o","w","n">>,
    <<"B","r","i","g","h","t","_","R","e","d">>, <<"b","r","i","g","h","t"," ","r","e","d">>,
    <<"r","_","e","d">> }

\* The colours the interpreter is taken to report.
ReportedTried ==
  {DEFAULT} \cup {e[1] : e \in color_map}
    \cup {DecimalString(n) : n \in 0..MaxIndex}
    \cup SixHex \cup {<<"#">> \o h : h \in SixHex} \cup OtherStrings

\* Colours of cells a caller of render made itself.
MadeTried ==
  {IntVal(0 - 1), IntVal(0 - MaxIndex), IntVal(1000 * MaxIndex)}
    \cup {StrVal(s) : s \in OtherStrings}

\* Theme values that are not in the registry: Theme(...) with the palette
\* left out, with a palette of two entries, with one of sixteen.
CustomThemes ==
  { [name |-> "bare", background |-> <<"#","0","0","0","0","0","0">>,
     foreground |-> <<"#","f","f","f","f","f","f">>,
     cursor |-> <<"#","f","f","f","f","f","f">>, palette |-> <<>>],
    [name |-> "two", background |-> <<"#","1","0","2","0","3","0">>,
     foreground |-> <<"#","A","0","B","0","C","0">>,
     cursor |-> <<"#","f","f","f","f","f","f">>,
     palette |-> << <<"#","0","1","0","2","0","3">>, <<"#","f","e","0","0","0","0">> >>],
    [NORD_THEME EXCEPT !.name = "custom",
                       !.background = <<"f","f","f","f","f","f">>,
                       !.foreground = <<"0","0","0","0","8","0">>] }
ThemesTried == THEMES \cup CustomThemes

ColorFrame ==
  UNCHANGED <<runsLeft, shotVars, masterOpen, slaveOpen, output, timed, timeout,
              now, pollResult, waitLeft, exc, reason, envVars, histVars, before,
              cfg, theme, viewVars, reported, role>>

\* get_buffer: fg = self._convert_color(char_data.fg, "default").
ColorGetBuffer ==
  /\ pc = "reported"
  /\ color' = convert_color(StrVal(reported))
  /\ pc' = IF color'.ok THEN "cell" ELSE "failed"
  /\ UNCHANGED rgb
  /\ ColorFrame

\* render: self._get_color_rgb(cell.fg, is_foreground=True), or cell.bg.
ColorResolve ==
  /\ pc \in {"cell", "made"}
  /\ rgb' = get_color_rgb(theme, color.val, role)
  /\ pc' = IF rgb'.ok THEN "resolved" ELSE "failed"
  /\ UNCHANGED color
  /\ ColorFrame

InitColor ==
  /\ runsLeft = 0 /\ hasRun = FALSE /\ sOutput = <<>>
  /\ screen = <<>> /\ parser = "ground" /\ calls = <<>> /\ banner = NoBanner
  /\ masterOpen = FALSE /\ slaveOpen = FALSE
  /\ output = <<>> /\ timed = FALSE /\ timeout = 0 /\ now = 0
  /\ pollResult = FALSE /\ waitLeft = 0 /\ exc = FALSE /\ reason = NONE
  /\ cmd = "ok" /\ child = "none" /\ childTty = FALSE /\ desc = "none"
  /\ termed = {} /\ ptybuf = <<>> /\ written = <<>> /\ writtenAtExit = 0
  /\ readLog = <<>> /\ timedOut = FALSE /\ deadline = {} /\ drained = FALSE
  /\ wait = NoWait /\ before = NoSnapshot
  /\ cfg = DefaultConfig
  /\ result = NoCall /\ grid = <<>> /\ image = Unset /\ saved = Unset
  /\ theme \in ThemesTried /\ role \in BOOLEAN /\ rgb = Unset
  /\ \/ pc = "reported" /\ reported \in ReportedTried /\ color = Unset
     \/ pc = "made" /\ reported = DEFAULT /\ color \in {Returned(c) : c \in MadeTried}

NextColor == ColorGetBuffer \/ ColorResolve
SpecColor == InitColor /\ [][NextColor]_vars

\* ================================================== one grid, rendered
MaxCells == 4    \* cells of the largest grids tried

CellsTried ==
  { BlankCell,
    Cell("x", IntVal(1), StrVal(DEFAULT), TRUE, TRUE, FALSE, FALSE),
    Cell(" ", StrVal(DEFAULT), StrVal(<<"#","1","1","2","2","3","3">>),
         FALSE, FALSE, TRUE, TRUE) }
\* A cell whose colour cannot be decoded.
BadCell == Cell("y", StrVal(<<"#","z","z">>), StrVal(DEFAULT), FALSE, FALSE, FALSE, FALSE)

\* Rectangular grids, those of no row or no column among them.
GridsTried ==
  UNION {[1..d[1] -> [1..d[2] -> CellsTried]] :
           d \in {e \in (0..MaxCells) \X (0..MaxCells) : e[1] * e[2] <= MaxCells}}
    \cup {<< <<BadCell>> >>}

\* Renderers: the chrome on or off, two paddings, two cell widths.
ConfigsTried ==
  [chrome : BOOLEAN, padding : {0, 20}, char_width : {8, 9}, char_height : {16}]

RenderFrame ==
  UNCHANGED <<runsLeft, shotVars, masterOpen, slaveOpen, output, timed, timeout,
              now, pollResult, waitLeft, exc, reason, envVars, histVars, before,
              cfg, theme, result, grid, colorVars>>

\* TerminalRenderer.render(buffer).
RenderGrid ==
  /\ pc = "grid"
  /\ image' = render(theme, cfg, grid)
  /\ pc' = IF image'.ok THEN "rendered" ELSE "failed"
  /\ UNCHANGED saved
  /\ RenderFrame

\* TerminalRenderer.save(buffer, path): render, then write the file.
RenderSave ==
  /\ pc = "grid"
  /\ image' = render(theme, cfg, grid)
  /\ IF image'.ok THEN pc' = "saved" /\ saved' = image'
                  ELSE pc' = "failed" /\ UNCHANGED saved
  /\ RenderFrame

InitRender ==
  /\ pc = "grid"
  /\ runsLeft = 0 /\ hasRun = FALSE /\ sOutput = <<>>
  /\ screen = <<>> /\ parser = "ground" /\ calls = <<>> /\ banner = NoBanner
  /\ masterOpen = FALSE /\ slaveOpen = FALSE
  /\ output = <<>> /\ timed = FALSE /\ timeout = 0 /\ now = 0
  /\ pollResult = FALSE /\ waitLeft = 0 /\ exc = FALSE /\ reason = NONE
  /\ cmd = "ok" /\ child = "none" /\ childTty = FALSE /\ desc = "none"
  /\ termed = {} /\ ptybuf = <<>> /\ written = <<>> /\ writtenAtExit = 0
  /\ readLog = <<>> /\ timedOut = FALSE /\ deadline = {} /\ drained = FALSE
  /\ wait = NoWait /\ before = NoSnapshot
  /\ result = NoCall /\ image = Unset /\ saved = Unset
  /\ reported = DEFAULT /\ color = Unset /\ role = TRUE /\ rgb = Unset
  /\ theme \in {DEFAULT_THEME, NORD_THEME}
  /\ cfg \in ConfigsTried
  /\ grid \in GridsTried

NextRender == RenderGrid \/ RenderSave
SpecRender == InitRender /\ [][NextRender]_vars

\* ============================================ a session that need not end
\* The histories (output, readLog) keep their first MaxBytes bytes; the bytes
\* beyond them are taken off the terminal and counted for nothing.
Kept(s) == SubSeq(s, 1, Min(Len(s), MaxBytes))

\* A descendant that goes on writing after the MaxBytes bytes that written
\* records.
DescStream ==
  /\ EnvActive /\ desc = "running"
  /\ Len(written) = MaxBytes /\ Len(ptybuf) < PtyCap
  /\ \E b \in Bytes : ptybuf' = Append(ptybuf, b)
  /\ UNCHANGED <<child, childTty, desc, written, writtenAtExit>>
  /\ EnvFrame

\* os.read(master_fd, 4096) in the loop, RunRead with the histories cut.
LiveRead ==
  /\ UNCHANGED sideVars
  /\ pc = "read"
  /\ \/ \E k \in 1..Min(Len(ptybuf), ReadChunk) :
          /\ output' = Kept(output \o SubSeq(ptybuf, 1, k))
          /\ readLog' = Kept(readLog \o SubSeq(ptybuf, 1, k))
          /\ ptybuf' = SubSeq(ptybuf, k + 1, Len(ptybuf))
          /\ pc' = "check" /\ UNCHANGED reason
     \/ \* end of file
        /\ ptybuf = <<>> /\ Hangup
        /\ IF pollResult THEN pc' = "finally" /\ reason' = "eof"
                         ELSE pc' = "check" /\ UNCHANGED reason
        /\ UNCHANGED <<output, readLog, ptybuf>>
     \/ \* OSError (EIO after the hangup)
        /\ ptybuf = <<>> /\ Hangup
        /\ pc' = "finally" /\ reason' = "readerr"
        /\ UNCHANGED <<output, readLog, ptybuf>>
  /\ drained' = (drained \/ timedOut)
  /\ UNCHANGED <<runsLeft, shotVars, masterOpen, slaveOpen, timed, timeout, now,
                 pollResult, waitLeft, exc, cmd, child, childTty, desc, termed,
                 written, writtenAtExit, timedOut, deadline, wait>>

\* The final read attempt, RunDrain with the histories cut.
LiveDrain ==
  /\ UNCHANGED sideVars
  /\ pc = "drain"
  /\ \/ \E k \in 1..Min(Len(ptybuf), ReadChunk) :
          /\ output' = Kept(output \o SubSeq(ptybuf, 1, k))
          /\ readLog' = Kept(readLog \o SubSeq(ptybuf, 1, k))
          /\ ptybuf' = SubSeq(ptybuf, k + 1, Len(ptybuf))
     \/ \* ready by hangup: the read returns nothing or raises, both pass
        /\ ptybuf = <<>> /\ Hangup
        /\ UNCHANGED <<output, readLog, ptybuf>>
     \/ \* not ready within the drain wait
        /\ ~Readable /\ waitLeft = 0
        /\ UNCHANGED <<output, readLog, ptybuf>>
  /\ pc' = "finally" /\ reason' = "drained" /\ waitLeft' = 0
  /\ drained' = (drained \/ timedOut)
  /\ UNCHANGED <<runsLeft, shotVars, masterOpen, slaveOpen, timed, timeout, now,
                 pollResult, exc, cmd, child, childTty, desc, termed,
                 written, writtenAtExit, timedOut, deadline, wait>>

\* The statements of PTYRunner.run and the clock of its waits.  The thread
\* is at one place at a time, so at most one of them is enabled.
RunStep ==
  \/ RunOpenPty \/ RunConfigure \/ RunSpawn \/ RunCheckTimeout \/ RunPoll
  \/ Tick \/ RunSelect \/ LiveRead \/ LiveDrain \/ RunFinally

NextLive ==
  \/ RunStep
  \/ ShotPipeline \/ ShotRaised
  \/ ChildWrite \/ DescWrite \/ DescStream \/ ChildFork \/ ChildCloseTty
  \/ ChildExit \/ DescExit

\* The thread runs whenever it can and a wait does not outlast its length;
\* nothing is asked of the processes of the session.
SpecLive == InitSession /\ [][NextLive]_vars /\ WF_vars(RunStep)

\* ================================================================ claims
Exited == child \in {"zombie", "reaped"}

\* C1: the timeout branch signals every process of the group that is alive
\* at the deadline, also after the child was reaped; no timeout, no signal.
C1_SignalReachesWholeGroup ==
  /\ timedOut => deadline \subseteq termed
  /\ ~timedOut => termed = {}

\* C2: when PTYRunner.run returns the child has been reaped and no process
\* of the group is running (the code never kills forcibly).
C2_NoProcessLeftAtReturn ==
  pc = "ret" => child = "reaped" /\ Alive = {}

\* C3: when PTYRunner.run returns or raises, both descriptors are closed.
C3_BothDescriptorsClosed ==
  pc \in {"ret", "raised"} => ~masterOpen /\ ~slaveOpen

\* C4 as claimed: with a timeout, every wait starts before the deadline and
\* lasts at most min(slice, timeout - elapsed); run returns by timeout + slice.
C4_EveryWaitWithinTimeout ==
  timed =>
    /\ wait.kind # NONE =>
         wait.at < timeout /\ wait.len <= Min(Slice, timeout - wait.at)
    /\ pc = "ret" => now <= timeout + Slice

\* C4 amended: that bound holds for the waits of the loop; the final drain
\* wait may start as late as the deadline and lasts the drain window, and
\* run is over by timeout + drain window, which is within timeout + slice.
C4_WaitsBounded ==
  timed =>
    /\ wait.kind = "select" =>
         wait.at < timeout /\ wait.len <= Min(Slice, timeout - wait.at)
    /\ wait.kind = "drain" => wait.at <= timeout /\ wait.len = DrainWait
    /\ pc = "drain" => wait.kind = "drain"
    /\ now <= timeout + DrainWait /\ now <= timeout + Slice

C4_Witness ==
  /\ pc = "ret" /\ timed /\ timeout > 0 /\ reason = "drained"
  /\ wait.at = timeout /\ now = timeout + DrainWait

\* C5: after the timeout signal one drain read of the controlling end is
\* made before run returns.
C5_DrainAfterSignal ==
  pc = "ret" /\ timedOut => drained

\* C6: when the loop ends with the child exited and not by timeout, the
\* buffer holds every byte written before the exit, in order, none twice.
C6_AllBytesBeforeExitCaptured ==
  pc = "ret" /\ reason \in {"eof", "drained", "readerr"} /\ Exited =>
    /\ IsPrefix(SubSeq(written, 1, writtenAtExit), output)
    /\ IsPrefix(output, written)

C6_Witness ==
  /\ pc = "ret" /\ reason = "drained"
  /\ writtenAtExit > ReadChunk /\ Len(output) = writtenAtExit

\* C7: a missing executable raises before any byte is read and before any
\* interpreter work, and gives no normal result.
C7_MissingCommandRaises ==
  cmd = "missing" => readLog = <<>> /\ pc # "ret" /\ calls = <<>>

\* C8: a capture ended by a read failure or by timeout does not raise,
\* returns exactly the bytes read, and Screenshotter.run stores them, feeds
\* them to the emulator last and sets the has-run flag.
C8_PartialOutputKept ==
  reason \in {"readerr", "timeout"} =>
    /\ ~exc
    /\ pc = "ret" => output = readLog
    /\ pc = "idle" =>
         /\ hasRun /\ sOutput = readLog
         /\ calls # <<>> /\ calls[Len(calls)] = Call("feed", readLog)

C8_Witness ==
  /\ pc = "idle" /\ reason = "timeout" /\ hasRun
  /\ Len(sOutput) = MaxBytes

\* The emulator calls of one run: reset, the banner line when shown, a
\* carriage return, the captured bytes.
ExpectedCalls(show, text, out) ==
  <<Call("reset", <<>>)>>
  \o (IF show THEN <<Call("feed", <<"P", text, "NL">>)>> ELSE <<>>)
  \o <<Call("feed", <<"CR">>), Call("feed", out)>>

FreshRun(show, title, out) ==
  Feed([screen |-> <<>>, parser |-> "ground"],
       (IF show THEN PromptLine(title) ELSE <<>>) \o <<"CR">> \o out)

\* C10: after any sequence of runs the emulator and the stored output are
\* what the most recent completed run alone produces.
C10_NoStateAcrossSessions ==
  pc = "idle" /\ hasRun =>
    /\ screen = FreshRun(banner.show, banner.title, sOutput).screen
    /\ parser = FreshRun(banner.show, banner.title, sOutput).parser

\* ------------------------------------------------------ colour resolution
\* _get_color_rgb was called for the cell's colour.
Resolved == pc \in {"resolved", "failed"} /\ color.ok
\* The cell's colour is an integer of lo..hi.
IsIndex(lo, hi) == color.val.t = "int" /\ lo <= color.val.v /\ color.val.v <= hi
\* The channels of "#rrggbb" or "rrggbb".
Channels(h) ==
  LET s == IF h[1] = "#" THEN Tail(h) ELSE h
  IN <<16 * HexOf(s[1]) + HexOf(s[2]), 16 * HexOf(s[3]) + HexOf(s[4]),
       16 * HexOf(s[5]) + HexOf(s[6])>>
InRange(t) == Len(t) = 3 /\ \A k \in 1..3 : 0 <= t[k] /\ t[k] <= 255

\* C13 as claimed: for every theme the renderer accepts, every index 0..15
\* and both roles, the resolved colour is the decode of the theme's palette
\* entry at that index.
C13_PaletteEntry ==
  Resolved /\ IsIndex(0, 15) =>
    /\ color.val.v < Len(theme.palette)
    /\ rgb.ok /\ rgb.val = Channels(theme.palette[color.val.v + 1])

\* C13 amended: that holds where the theme's palette has an entry at the
\* index (all sixteen in the registry's themes); where a custom theme's
\* palette is shorter, the index resolves to the theme's foreground in
\* both roles.
C13_PaletteEntryWherePresent ==
  Resolved /\ IsIndex(0, 15) =>
    /\ rgb.ok
    /\ rgb.val = Channels(IF color.val.v < Len(theme.palette)
                            THEN theme.palette[color.val.v + 1]
                            ELSE theme.foreground)
    /\ theme \in THEMES => Len(theme.palette) = 16

C13_Witness ==
  /\ pc = "resolved" /\ theme.name = "dracula" /\ ~role
  /\ IsIndex(9, 9) /\ rgb.val = <<255, 110, 110>>

\* The channel values of the colour cube, and the reference mapping of the
\* indices 16..255.
CubeChannels == <<0, 95, 135, 175, 215, 255>>
Reference(index) ==
  IF index < 232
    THEN LET i == index - 16
         IN <<CubeChannels[(i \div 36) + 1], CubeChannels[((i \div 6) % 6) + 1],
              CubeChannels[(i % 6) + 1]>>
    ELSE [k \in 1..3 |-> 8 + 10 * (index - 232)]

\* C14: an index of 16..255 resolves to the reference mapping whatever the
\* theme and the role; the gray ramp rises strictly and stays within 255.
C14_ReferenceMapping ==
  /\ Resolved /\ IsIndex(16, 255) => rgb.ok /\ rgb.val = Reference(color.val.v)
  /\ \A i \in 232..254 :
       Reference(i)[1] < Reference(i + 1)[1] /\ Reference(i + 1)[1] <= 255

C14_Witness ==
  /\ pc = "resolved" /\ theme.name = "nord" /\ ~role
  /\ IsIndex(110, 110) /\ rgb.val = <<135, 175, 215>>

\* The colour of the role in the theme.
RoleColour == Channels(IF role THEN theme.foreground ELSE theme.background)
\* A string that starts with '#'; one with six hex digits after it.
IsHashString(c) == c.t = "str" /\ c.v # <<>> /\ c.v[1] = "#"
IsHashColour(c) ==
  IsHashString(c) /\ Len(c.v) >= 7 /\ \A k \in 2..7 : IsHex(c.v[k])
\* An integer outside 0..255, or a string that is neither "default" nor
\* starts with '#'.
OutsideRanges(c) ==
  \/ c.t = "int" /\ (c.v < 0 \/ c.v > 255)
  \/ c.t = "str" /\ c.v # DEFAULT /\ ~IsHashString(c)

C16_TrueColourKept ==
  Resolved /\ (reported \in SixHex \/ (reported # <<>> /\ Tail(reported) \in SixHex /\ Head(reported) = "#")) =>
    rgb.ok /\ rgb.val = Channels(reported)

\* ---------------------------------------------------------------- canvas
\* C17: a grid of at least one row and one column gives an image
\* cols*cellWidth + 2*padding wide and rows*cellHeight + 2*padding +
\* chromeHeight tall, chromeHeight being 36 with the chrome and 0 without;
\* a grid of no row or no column gives the placeholder filled with the
\* theme's background, and render does not fail on it.
C17_CanvasSize ==
  LET rows == Len(grid)
      cols == IF rows = 0 THEN 0 ELSE Len(grid[1])
  IN /\ pc \in {"rendered", "saved"} /\ rows >= 1 /\ cols >= 1 =>
          /\ image.val.width = cols * cfg.char_width + 2 * cfg.padding
          /\ image.val.height = rows * cfg.char_height + 2 * cfg.padding
                                  + (IF cfg.chrome THEN 36 ELSE 0)
     /\ pc \in {"rendered", "saved", "failed"} /\ (rows = 0 \/ cols = 0) =>
          /\ image.ok /\ image.val.paints = <<>>
          /\ image.val.fill = Channels(theme.background)
     /\ pc = "failed" => grid = << <<BadCell>> >>

C17_Witness ==
  /\ pc = "rendered" /\ Len(grid) = 2 /\ Len(grid[1]) = 2
  /\ cfg.chrome /\ cfg.padding = 20 /\ cfg.char_width = 9
  /\ image.val.width = 58 /\ image.val.height = 108

\* ------------------------------------------------- renders and snapshots
\* What the accessors are about: the captured bytes, the flag, the emulator.
snapshot == <<hasRun, sOutput, output, screen, parser>>
\* A step of an accessor.
AccessorStep == pc = "idle" /\ pc' = "idle"
\* The image render makes of the emulator's screen as it is now.
ImageNow == render(theme, cfg, get_buffer(screen))

C11_FailsOnlyBeforeRun ==
  /\ ~hasRun => ~image.ok /\ ~saved.ok /\ grid = <<>>
  /\ result.op \in {"to_image", "save"} =>
       ((result.err = "RuntimeError") <=> ~hasRun)
C11_FailingCall ==
  /\ hasRun => hasRun'
  /\ AccessorStep /\ ~hasRun =>
       /\ UNCHANGED <<snapshot, grid, image, saved>>
       /\ result'.op \in {"to_image", "save"} => result'.err = "RuntimeError"

\* C11: before any run has completed to_image and save fail with the
\* precondition error, rendering nothing, writing nothing and changing no
\* state; once a run has completed they never fail with it again.
C11_Precondition == []C11_FailsOnlyBeforeRun /\ [][C11_FailingCall]_vars

C11_Witness ==
  /\ ~hasRun /\ exc /\ pc = "idle"
  /\ result.op = "save" /\ result.err = "RuntimeError" /\ ~saved.ok

C12_SameImage ==
  image.ok => grid = get_buffer(screen) /\ image.val = ImageNow.val
C12_AccessorStep ==
  AccessorStep =>
    /\ UNCHANGED snapshot
    /\ image.ok /\ image'.ok => image' = image /\ grid' = grid
    /\ saved'.ok => saved' = image'

\* C12: to_image, save, get_raw_output and get_text_output leave the
\* captured bytes, the flag and the emulator's screen as they are, and every
\* render between two runs sees the same grid and gives the same image.
C12_RenderLeavesSnapshot == []C12_SameImage /\ [][C12_AccessorStep]_vars

C12_Witness ==
  /\ hasRun /\ runsLeft > 0 /\ sOutput # <<>> /\ banner.show
  /\ result.op = "to_image" /\ image.ok /\ saved.ok

\* A run that captured nothing has been rendered.
NoOutputShown ==
  hasRun /\ sOutput = <<>> /\ result.op = "to_image" /\ image.ok
AllBlank(g) ==
  \A r \in 1..Len(g) : \A c \in 1..Len(g[r]) : g[r][c] = BlankCell
Uniform(img) ==
  \A i \in 1..Len(img.paints) : img.paints[i].fill = img.fill
ExpectedCanvas(img) ==
  /\ Len(grid) = ScreenRows /\ Len(grid[1]) = ScreenCols
  /\ img.width = ScreenCols * cfg.char_width + 2 * cfg.padding
  /\ img.height = ScreenRows * cfg.char_height + 2 * cfg.padding
                    + (IF cfg.chrome THEN 36 ELSE 0)
  /\ img.fill = Channels(theme.background)

C20_FailedRunLeavesState ==
  pc = "raised" \/ (pc = "idle" /\ exc) =>
    /\ hasRun = before.hasRun /\ sOutput = before.sOutput
    /\ screen = before.screen
    /\ result.op \in {"to_image", "save"} =>
         IF before.hasRun
           THEN /\ result.err = NONE /\ grid = get_buffer(before.screen)
                /\ image.ok
                /\ image.val = render(theme, cfg, get_buffer(before.screen)).val
           ELSE result.err = "RuntimeError" /\ ~image.ok
    /\ result.op = "save" /\ before.hasRun => saved = image
    /\ result.op = "get_text_output" =>
         result.out = IF before.hasRun THEN get_display_lines(before.screen)
                                       ELSE <<>>
    /\ result.op = "get_raw_output" => result.out = before.sOutput

C20_Witness ==
  /\ pc = "idle" /\ exc /\ hasRun /\ sOutput # <<>>
  /\ result.op = "to_image" /\ image.ok /\ ~saved.ok

\* PTYRunner.run is over: it has returned or raised.
RunOver == pc \in {"ret", "raised", "idle"}

\* C19: with no timeout, once the direct child has exited PTYRunner.run
\* eventually returns, whatever the terminal does afterwards.
C19_ReturnsAfterChildExit == (Exited /\ ~timed) ~> RunOver


====
